---- MODULE Spec2Model ----
(***************************************************************************)
(* Model of src/track_clones.py: the clone tracker's cycle                 *)
(*   load_historical_data -> get_clone_stats -> update_csv ->              *)
(*   calculate_cumulative_totals -> update_clone_summary                   *)
(* run repeatedly by an external scheduler against the files               *)
(* data/clones_summary.json and data/clone_data.csv.                       *)
(*                                                                         *)
(* Representation.                                                         *)
(*  - A Python dict is a set of [key, value] pairs with distinct keys.     *)
(*  - A calendar date "YYYY-MM-DD" is its day number; the string order the *)
(*    code compares dates with is the order of the day numbers.            *)
(*    Days are numbered from 1.                                            *)
(*  - A timestamp is the day it was taken on; None is 0.                   *)
(*  - clones_summary.json is the sequence of chunks json.dump writes: an   *)
(*    opening brace, the members of the summary, a closing brace.          *)
(*    json.load accepts a sequence only when it is a complete object.      *)
(*    The top_repositories listings, which nothing reads back, are left    *)
(*    out of the members.                                                  *)
(*  - clone_data.csv is whether it exists, whether it has its header, and  *)
(*    how many rows it holds.                                              *)
(*  - The clock advances between cycles, not inside one.                   *)
(***************************************************************************)
EXTENDS Integers, Sequences, FiniteSets, TLC

\* ---- bounds of the model ------------------------------------------------
MaxDay == 32
NearDays == 1
MaxCount == 2
MaxUnique == 1
MaxBreakdown == 2
MaxCrashes == 1
MaxCsvRows == 3

\* ---- program constants --------------------------------------------------
RetentionDays == 30
None == 0

RepoNames == {"A", "B"}
UserRepos == <<"A", "B">>

\* The calendar days the model follows: the first NearDays days and the
\* days past the retention horizon, up to MaxDay.
Dates == {d \in 1..MaxDay : d <= NearDays \/ d > RetentionDays}

\* The days on which the repositories were cloned: the first NearDays days
\* and the last one.
TrafficDays == {d \in Dates : d <= NearDays \/ d = MaxDay}

\* ---- dicts --------------------------------------------------------------
Keys(m) == {e.key : e \in m}
Get(m, k) == (CHOOSE e \in m : e.key = k).value
Put(m, k, v) == {e \in m : e.key # k} \cup {[key |-> k, value |-> v]}

Max(a, b) == IF a >= b THEN a ELSE b

RECURSIVE SumSeq(_)
\* sum(...) over a list of numbers
SumSeq(s) == IF s = <<>> THEN 0 ELSE Head(s) + SumSeq(Tail(s))

RECURSIVE SumSet(_)
\* sum(...) over the numbers of a set of [key, value] pairs
SumSet(m) ==
    IF m = {} THEN 0
    ELSE LET e == CHOOSE x \in m : TRUE IN e.value + SumSet(m \ {e})

\* ---- load_historical_data -----------------------------------------------
LBrace == [key |-> "{", value |-> None]
RBrace == [key |-> "}", value |-> None]

\* json.load accepts the file only when it holds one complete object.
IsValidJson(content) ==
    /\ Len(content) = 3
    /\ content[1].key = "{"
    /\ content[2].key = "members"
    /\ content[3].key = "}"

\* The parsed object: the dict of its members.
JsonLoad(content) == content[2].value

\* data.get(key, default)
DictGet(data, key, default) ==
    IF key \in DOMAIN data THEN data[key] ELSE default

EmptyHistorical ==
    [cumulative_totals |-> {}, daily_records |-> {}, last_run |-> None]

\* A load that takes the members of a file whose closing brace is missing.
LoadHistoricalDataLenient(file) ==
    IF file.exists /\ Len(file.content) >= 2
    THEN LET data == JsonLoad(file.content)
         IN  [cumulative_totals |-> DictGet(data, "cumulative_totals", {}),
              daily_records |-> DictGet(data, "daily_records", {}),
              last_run |-> DictGet(data, "last_updated", None)]
    ELSE EmptyHistorical

LoadHistoricalData(file) ==
    IF file.exists /\ IsValidJson(file.content)
    THEN LET data == JsonLoad(file.content)
         IN  [cumulative_totals |-> DictGet(data, "cumulative_totals", {}),
              daily_records |-> DictGet(data, "daily_records", {}),
              last_run |-> DictGet(data, "last_updated", None)]
    ELSE EmptyHistorical

\* ---- calculate_cumulative_totals ----------------------------------------
\* One pass of the loop over repo["daily_breakdown"].items(): acc holds the
\* repository's daily records, its total_clones, and the days for which the
\* "Adding ... clones" line was printed.
\* The loop body without its "not recorded before" test.
ProcessDayAlways(acc, item) ==
    [records |-> Put(acc.records, item.key,
                     [count |-> item.value.count,
                      uniques |-> item.value.uniques]),
     total_clones |-> acc.total_clones + item.value.count,
     added |-> acc.added \cup {item.key}]

\* The loop body refreshing the stored record of a day recorded before.
ProcessDayLatestWins(acc, item) ==
    [records |-> Put(acc.records, item.key,
                     [count |-> item.value.count,
                      uniques |-> item.value.uniques]),
     total_clones |-> IF item.key \notin Keys(acc.records)
                      THEN acc.total_clones + item.value.count
                      ELSE acc.total_clones,
     added |-> IF item.key \notin Keys(acc.records)
               THEN acc.added \cup {item.key}
               ELSE acc.added]

\* The loop body taking a day as new when it is later than every recorded day.
ProcessDayWatermark(acc, item) ==
    IF \A e \in acc.records : e.key < item.key
    THEN [records |-> Put(acc.records, item.key,
                          [count |-> item.value.count,
                           uniques |-> item.value.uniques]),
          total_clones |-> acc.total_clones + item.value.count,
          added |-> acc.added \cup {item.key}]
    ELSE acc

ProcessDay(acc, item) ==
    IF item.key \notin Keys(acc.records)
    THEN [records |-> Put(acc.records, item.key,
                          [count |-> item.value.count,
                           uniques |-> item.value.uniques]),
          total_clones |-> acc.total_clones + item.value.count,
          added |-> acc.added \cup {item.key}]
    ELSE acc

RECURSIVE ProcessDays(_, _)
ProcessDays(acc, items) ==
    IF items = <<>> THEN acc
    ELSE ProcessDays(ProcessDay(acc, Head(items)), Tail(items))

\* A cutoff one day too early.
CutoffDateLate(now) == now - RetentionDays - 1

CutoffDate(now) == now - RetentionDays

\* {day: stats for day, stats in records.items() if day >= cutoff_date}
PruneOld(records, cutoff_date) == {e \in records : e.key >= cutoff_date}

NewAggregate(timestamp) ==
    [total_clones |-> 0, total_unique |-> 0, first_tracked |-> timestamp]

\* The loop body taking the counts of the pruned records off the total.
ProcessRepoSubtracting(st, repo, now) ==
    LET repo_name == repo.repo_name
        agg  == IF repo_name \notin Keys(st.cumulative)
                THEN NewAggregate(repo.timestamp)
                ELSE Get(st.cumulative, repo_name)
        recs == IF repo_name \notin Keys(st.daily_records)
                THEN {}
                ELSE Get(st.daily_records, repo_name)
        days == ProcessDays([records |-> recs,
                             total_clones |-> agg.total_clones,
                             added |-> {}],
                            repo.daily_breakdown)
        kept == PruneOld(days.records, CutoffDate(now))
    IN  [cumulative |->
            Put(st.cumulative, repo_name,
                [total_clones |-> days.total_clones -
                    SumSet({[key |-> e.key, value |-> e.value.count] :
                                e \in days.records \ kept}),
                 total_unique |-> Max(agg.total_unique, repo.period_unique),
                 first_tracked |-> agg.first_tracked,
                 last_updated |-> repo.timestamp]),
         daily_records |-> Put(st.daily_records, repo_name, kept),
         printed |-> st.printed \cup
            {[repo_name |-> repo_name, day |-> d] : d \in days.added}]

\* The loop body initialising the repository's entry on every cycle.
ProcessRepoFromZero(st, repo, now) ==
    LET repo_name == repo.repo_name
        agg  == NewAggregate(repo.timestamp)
        recs == IF repo_name \notin Keys(st.daily_records)
                THEN {}
                ELSE Get(st.daily_records, repo_name)
        days == ProcessDays([records |-> recs,
                             total_clones |-> agg.total_clones,
                             added |-> {}],
                            repo.daily_breakdown)
    IN  [cumulative |->
            Put(st.cumulative, repo_name,
                [total_clones |-> days.total_clones,
                 total_unique |-> Max(agg.total_unique, repo.period_unique),
                 first_tracked |-> agg.first_tracked,
                 last_updated |-> repo.timestamp]),
         daily_records |->
            Put(st.daily_records, repo_name,
                PruneOld(days.records, CutoffDate(now))),
         printed |-> st.printed \cup
            {[repo_name |-> repo_name, day |-> d] : d \in days.added}]

\* The body of the loop over clone_data, for one report.
ProcessRepo(st, repo, now) ==
    LET repo_name == repo.repo_name
        agg  == IF repo_name \notin Keys(st.cumulative)
                THEN NewAggregate(repo.timestamp)
                ELSE Get(st.cumulative, repo_name)
        recs == IF repo_name \notin Keys(st.daily_records)
                THEN {}
                ELSE Get(st.daily_records, repo_name)
        days == ProcessDays([records |-> recs,
                             total_clones |-> agg.total_clones,
                             added |-> {}],
                            repo.daily_breakdown)
    IN  [cumulative |->
            Put(st.cumulative, repo_name,
                [total_clones |-> days.total_clones,
                 total_unique |-> Max(agg.total_unique, repo.period_unique),
                 first_tracked |-> agg.first_tracked,
                 last_updated |-> repo.timestamp]),
         daily_records |->
            Put(st.daily_records, repo_name,
                PruneOld(days.records, CutoffDate(now))),
         printed |-> st.printed \cup
            {[repo_name |-> repo_name, day |-> d] : d \in days.added}]

RECURSIVE ProcessRepos(_, _, _)
ProcessRepos(st, clone_data, now) ==
    IF clone_data = <<>> THEN st
    ELSE ProcessRepos(ProcessRepo(st, Head(clone_data), now),
                      Tail(clone_data), now)

\* The calculation pruning the records of every repository of the state.
CalculatePruningAll(clone_data, historical_data, now) ==
    LET res == ProcessRepos([cumulative |-> historical_data.cumulative_totals,
                             daily_records |-> historical_data.daily_records,
                             printed |-> {}],
                            clone_data, now)
    IN  [cumulative |-> res.cumulative,
         daily_records |->
            {[key |-> e.key, value |-> PruneOld(e.value, CutoffDate(now))] :
                e \in res.daily_records},
         printed |-> res.printed]

CalculateCumulativeTotals(clone_data, historical_data, now) ==
    ProcessRepos([cumulative |-> historical_data.cumulative_totals,
                  daily_records |-> historical_data.daily_records,
                  printed |-> {}],
                 clone_data, now)

\* ---- update_clone_summary -----------------------------------------------
Summary(clone_data, timestamp, today, cumulative_totals, daily_records) ==
    [last_updated |-> timestamp,
     last_run_date |-> today,
     period_stats |->
        [total_clones |->
            SumSeq([i \in 1..Len(clone_data) |-> clone_data[i].period_clones]),
         total_unique_clones |->
            SumSeq([i \in 1..Len(clone_data) |-> clone_data[i].period_unique]),
         repositories_tracked |-> Len(clone_data),
         repositories_with_clones |->
            Cardinality({i \in 1..Len(clone_data) :
                            clone_data[i].period_clones > 0})],
     cumulative_stats |->
        [total_clones |->
            SumSet({[key |-> e.key, value |-> e.value.total_clones] :
                        e \in cumulative_totals}),
         total_unique_clones |->
            SumSet({[key |-> e.key, value |-> e.value.total_unique] :
                        e \in cumulative_totals}),
         repositories_tracked |-> Cardinality(cumulative_totals),
         repositories_with_clones |->
            Cardinality({e \in cumulative_totals : e.value.total_clones > 0})],
     cumulative_totals |-> cumulative_totals,
     daily_records |-> daily_records]

\* The chunks json.dump(summary, f) writes, in order.
JsonDump(summary) ==
    << LBrace, [key |-> "members", value |-> summary], RBrace >>

\* An open that keeps the content of the file (mode "r+").
OpenKeeping(content) == content

\* open(summary_file, "w"): the content the file has once it is opened.
OpenForWrite(content) == <<>>

\* The file after the chunks were written at its start.
WriteChunks(content, chunks) ==
    chunks \o SubSeq(content, Len(chunks) + 1, Len(content))

\* ---- get_clone_stats ---------------------------------------------------
\* The (count, uniques) pairs the provider may report for one day.
DayStats ==
    {st \in [count : 1..MaxCount, uniques : 1..MaxUnique] :
        st.uniques <= st.count}

RECURSIVE SortedItems(_)
\* The items of a dict in ascending order of their keys (the provider lists
\* the days of its window chronologically).
SortedItems(m) ==
    IF m = {} THEN <<>>
    ELSE LET e == CHOOSE x \in m : \A y \in m : x.key <= y.key
         IN  <<e>> \o SortedItems(m \ {e})

\* The daily breakdowns the provider may return at day now.
Breakdowns(now) ==
    LET visible == {d \in TrafficDays : d <= now}
        windows == {w \in SUBSET visible : Cardinality(w) <= MaxBreakdown}
    IN  UNION {{SortedItems({[key |-> d, value |-> f[d]] : d \in w}) :
                    f \in [w -> DayStats]} : w \in windows}

RECURSIVE MaxSeq(_)
MaxSeq(s) == IF s = <<>> THEN 0 ELSE Max(Head(s), MaxSeq(Tail(s)))

\* The distinct cloners of a window are at least those of its busiest day and
\* at most those of all its days together.
PeriodUniques(daily_clones) ==
    LET u == [i \in 1..Len(daily_clones) |-> daily_clones[i].value.uniques]
    IN  MaxSeq(u)..SumSeq(u)

RepoData(repo_name, timestamp, today, period_unique, daily_clones) ==
    [timestamp |-> timestamp,
     date |-> today,
     repo_name |-> repo_name,
     period_clones |->
        SumSeq([i \in 1..Len(daily_clones) |-> daily_clones[i].value.count]),
     period_unique |-> period_unique,
     daily_breakdown |-> daily_clones]

\* ---- state --------------------------------------------------------------
VARIABLES
    now,                \* the current day (datetime.now())
    crashes,            \* interrupted cycles so far
    pc,                 \* where main() is
    summary_file,       \* data/clones_summary.json
    csv_file,           \* data/clone_data.csv
    historical_data,    \* main's historical_data
    clone_data,         \* main's clone_data
    timestamp,          \* main's timestamp
    cumulative_totals,  \* main's cumulative_totals
    daily_records,      \* main's daily_records
    printed,            \* the "Adding ... clones" lines of this cycle
    load_ok,            \* history: load_historical_data returned the file's data
    last_written,       \* history: the file as the last completed write left it
    prov                \* history: per (repo, day), additions to total_clones
                        \* and removals from the ledger behind each state

vars == <<now, crashes, pc, summary_file, csv_file, historical_data,
          clone_data, timestamp, cumulative_totals, daily_records, printed,
          load_ok, last_written, prov>>

NoFile == [exists |-> FALSE, content |-> <<>>]
NoCsv == [exists |-> FALSE, header |-> FALSE, rows |-> 0]

ZeroCounts == [p \in RepoNames \X Dates |-> 0]
NoProv == [added |-> ZeroCounts, pruned |-> ZeroCounts]

Init ==
    /\ now = 1
    /\ crashes = 0
    /\ pc = "idle"
    /\ summary_file = NoFile
    /\ csv_file = NoCsv
    /\ historical_data = EmptyHistorical
    /\ clone_data = <<>>
    /\ timestamp = None
    /\ cumulative_totals = {}
    /\ daily_records = {}
    /\ printed = {}
    /\ load_ok = FALSE
    /\ last_written = NoFile
    /\ prov = [file |-> NoProv, hist |-> NoProv, cum |-> NoProv]

\* main's locals are gone when the process ends.
ProcessEnds ==
    /\ pc' = "idle"
    /\ historical_data' = EmptyHistorical
    /\ clone_data' = <<>>
    /\ timestamp' = None
    /\ cumulative_totals' = {}
    /\ daily_records' = {}
    /\ printed' = {}
    /\ load_ok' = FALSE
    /\ prov' = [prov EXCEPT !.hist = NoProv, !.cum = NoProv]

\* Time passes between two runs of the script.
Tick ==
    /\ pc = "idle"
    /\ \E d \in Dates : d > now /\ now' = d
    /\ UNCHANGED <<crashes, pc, summary_file, csv_file, historical_data,
                   clone_data, timestamp, cumulative_totals, daily_records,
                   printed, load_ok, last_written, prov>>

\* main: historical_data = load_historical_data()
Load ==
    /\ pc = "idle"
    /\ historical_data' = LoadHistoricalData(summary_file)
    /\ load_ok' = (summary_file.exists /\ IsValidJson(summary_file.content))
    /\ prov' = [prov EXCEPT !.hist = IF load_ok' THEN prov.file ELSE NoProv]
    /\ pc' = "loaded"
    /\ UNCHANGED <<now, crashes, summary_file, csv_file, clone_data,
                   timestamp, cumulative_totals, daily_records, printed,
                   last_written>>

\* main: clone_data, timestamp, today = get_clone_stats(); every repository
\* of the user either yields a report or fails and is left out.
GetCloneStats ==
    /\ pc = "loaded"
    /\ \E ok \in SUBSET RepoNames :
         /\ csv_file.rows + Cardinality(ok) <= MaxCsvRows
         /\ \E bd \in [ok -> Breakdowns(now)] :
              \E pu \in [ok -> 0..(MaxBreakdown * MaxUnique)] :
                 LET fetched == SelectSeq(UserRepos, LAMBDA r : r \in ok)
                 IN  /\ \A r \in ok : pu[r] \in PeriodUniques(bd[r])
                     /\ clone_data' =
                            [i \in 1..Len(fetched) |->
                                RepoData(fetched[i], now, now,
                                         pu[fetched[i]], bd[fetched[i]])]
    /\ timestamp' = now
    /\ pc' = "fetched"
    /\ UNCHANGED <<now, crashes, summary_file, csv_file, historical_data,
                   cumulative_totals, daily_records, printed, load_ok,
                   last_written, prov>>

\* get_clone_stats raises (credentials missing, authentication rejected):
\* main prints the trace and re-raises.
GetCloneStatsRaises ==
    /\ pc = "loaded"
    /\ ProcessEnds
    /\ UNCHANGED <<now, crashes, summary_file, csv_file, last_written>>

\* A test that takes the empty list as data (clone_data is not None).
HasDataAlways(data) == TRUE

\* main: if clone_data:
HasData(data) == data # <<>>

\* main, else branch: the warning is printed and main returns.
NoData ==
    /\ pc = "fetched"
    /\ ~HasData(clone_data)
    /\ ProcessEnds
    /\ UNCHANGED <<now, crashes, summary_file, csv_file, last_written>>

\* update_csv(clone_data)
UpdateCsv ==
    /\ pc = "fetched"
    /\ HasData(clone_data)
    /\ csv_file' = [exists |-> TRUE,
                    header |-> (csv_file.header \/ ~csv_file.exists),
                    rows |-> csv_file.rows + Len(clone_data)]
    /\ pc' = "csv"
    /\ UNCHANGED <<now, crashes, summary_file, historical_data,
                   clone_data, timestamp, cumulative_totals, daily_records,
                   printed, load_ok, last_written, prov>>

\* The days of repo r the cycle removed from its ledger.
Removed(r, before, after, lines) ==
    LET had == IF r \in Keys(before) THEN Keys(Get(before, r)) ELSE {}
        has == IF r \in Keys(after) THEN Keys(Get(after, r)) ELSE {}
    IN  (had \cup {l.day : l \in {x \in lines : x.repo_name = r}}) \ has

\* cumulative_totals, daily_records = calculate_cumulative_totals(...)
Calculate ==
    /\ pc = "csv"
    /\ LET res == CalculateCumulativeTotals(clone_data, historical_data, now)
       IN  /\ cumulative_totals' = res.cumulative
           /\ daily_records' = res.daily_records
           /\ printed' = res.printed
           /\ prov' = [prov EXCEPT !.cum =
                [added |-> [p \in RepoNames \X Dates |->
                    prov.hist.added[p] +
                    (IF [repo_name |-> p[1], day |-> p[2]] \in res.printed
                     THEN 1 ELSE 0)],
                 pruned |-> [p \in RepoNames \X Dates |->
                    prov.hist.pruned[p] +
                    (IF p[2] \in Removed(p[1], historical_data.daily_records,
                                         res.daily_records, res.printed)
                     THEN 1 ELSE 0)]]]
    /\ pc' = "calculated"
    /\ UNCHANGED <<now, crashes, summary_file, csv_file,
                   historical_data, clone_data, timestamp, load_ok,
                   last_written>>

\* update_clone_summary(...): the summary is built, the file is opened for
\* writing and json.dump writes all of it.
UpdateCloneSummary ==
    /\ pc = "calculated"
    /\ summary_file' =
         [exists |-> TRUE,
          content |-> WriteChunks(OpenForWrite(summary_file.content),
                        JsonDump(Summary(clone_data, timestamp, now,
                                         cumulative_totals, daily_records)))]
    /\ last_written' = summary_file'
    /\ prov' = [prov EXCEPT !.file = prov.cum]
    /\ pc' = "written"
    /\ UNCHANGED <<now, crashes, csv_file, historical_data, clone_data,
                   timestamp, cumulative_totals, daily_records, printed,
                   load_ok>>

\* update_clone_summary is cut short (the process is killed, or a write
\* raises) after the file was opened and k chunks reached it.
InterruptedWrite ==
    /\ pc = "calculated"
    /\ crashes < MaxCrashes
    /\ LET chunks == JsonDump(Summary(clone_data, timestamp, now,
                                      cumulative_totals, daily_records))
       IN  \E k \in 0..(Len(chunks) - 1) :
              summary_file' =
                [exists |-> TRUE,
                 content |-> WriteChunks(OpenForWrite(summary_file.content),
                                         SubSeq(chunks, 1, k))]
    /\ crashes' = crashes + 1
    /\ ProcessEnds
    /\ UNCHANGED <<now, csv_file, last_written>>

\* main: "Clone tracking completed successfully"
Finish ==
    /\ pc = "written"
    /\ ProcessEnds
    /\ UNCHANGED <<now, crashes, summary_file, csv_file, last_written>>

\* The process is killed between two steps of main.
Crash ==
    /\ pc \in {"loaded", "fetched", "csv", "calculated"}
    /\ crashes < MaxCrashes
    /\ crashes' = crashes + 1
    /\ ProcessEnds
    /\ UNCHANGED <<now, summary_file, csv_file, last_written>>

Next ==
    \/ Tick
    \/ Load
    \/ GetCloneStats
    \/ GetCloneStatsRaises
    \/ NoData
    \/ UpdateCsv
    \/ Calculate
    \/ UpdateCloneSummary
    \/ InterruptedWrite
    \/ Finish
    \/ Crash

Spec == Init /\ [][Next]_vars

\* ---- vocabulary of the properties --------------------------------------
BatchNames == {clone_data[i].repo_name : i \in 1..Len(clone_data)}
ReportOf(r) == clone_data[CHOOSE i \in 1..Len(clone_data) :
                            clone_data[i].repo_name = r]
Items(report) ==
    {report.daily_breakdown[i] : i \in 1..Len(report.daily_breakdown)}

\* A repository's daily records in a daily_records dict ({} when it has none).
Ledger(records, r) == IF r \in Keys(records) THEN Get(records, r) ELSE {}
\* A repository's total_clones in a cumulative_totals dict (0 when not in it).
TotalOf(totals, r) ==
    IF r \in Keys(totals) THEN Get(totals, r).total_clones ELSE 0
UniqueOf(totals, r) ==
    IF r \in Keys(totals) THEN Get(totals, r).total_unique ELSE 0

\* The state a cycle would load from the file as it is now.
Persisted == LoadHistoricalData(summary_file)
FileParses == summary_file.exists /\ IsValidJson(summary_file.content)

Computed == pc \in {"calculated", "written"}

Reorderings(s) ==
    {[i \in 1..Len(s) |-> s[f[i]]] :
        f \in {g \in [1..Len(s) -> 1..Len(s)] :
                  \A i, j \in 1..Len(s) : g[i] = g[j] => i = j}}

\* The sum of the counts of a set of breakdown items.
CountSum(items) ==
    SumSet({[key |-> it.key, value |-> it.value.count] : it \in items})

\* ---- C1 -----------------------------------------------------------------
\* C1 as stated: for every repository and date, in the state a cycle wrote,
\* the date's count has been added to the repository's total_clones at most
\* once, however many cycles reported the date.
C1_AddedOnceEver ==
    \A p \in RepoNames \X Dates : prov.file.added[p] <= 1

\* C1 amended: a date's count is added once each time its entry enters the
\* repository's daily_records. While the entry is retained, later reports of
\* the date add nothing; the additions behind a written state are one per
\* removal of the entry from the ledger, plus one if the entry is in it.
C1_AddedOncePerLedgerEntry ==
    /\ FileParses =>
         \A p \in RepoNames \X Dates :
            prov.file.added[p] = prov.file.pruned[p] +
                (IF p[2] \in Keys(Ledger(Persisted.daily_records, p[1]))
                 THEN 1 ELSE 0)
    /\ Computed =>
         \A p \in RepoNames \X Dates :
            prov.cum.added[p] = prov.cum.pruned[p] +
                (IF p[2] \in Keys(Ledger(daily_records, p[1])) THEN 1 ELSE 0)

\* A second cycle has reported a date that the loaded ledger holds, and the
\* date stands added once.
C1_Witness ==
    /\ pc = "written"
    /\ \E r \in BatchNames : \E it \in Items(ReportOf(r)) :
          /\ it.key \in Keys(Ledger(historical_data.daily_records, r))
          /\ prov.file.added[<<r, it.key>>] = 1

\* ---- C2 -----------------------------------------------------------------
\* C2: a date already in the repository's loaded daily_records is skipped:
\* no "Adding" line for it, its stored record is kept as it was (when still
\* inside the retention horizon), total_clones grows only by the counts of
\* the dates that were not in the ledger, and total_unique is the maximum of
\* the old total_unique and the report's period_unique.
C2_FirstSeenWins ==
    Computed =>
      \A r \in BatchNames :
         LET prior == Ledger(historical_data.daily_records, r)
             fresh == {it \in Items(ReportOf(r)) : it.key \notin Keys(prior)}
         IN  /\ \A it \in Items(ReportOf(r)) \ fresh :
                  /\ [repo_name |-> r, day |-> it.key] \notin printed
                  /\ it.key >= now - RetentionDays =>
                        /\ it.key \in Keys(Ledger(daily_records, r))
                        /\ Get(Ledger(daily_records, r), it.key)
                              = Get(prior, it.key)
             /\ TotalOf(cumulative_totals, r) =
                   TotalOf(historical_data.cumulative_totals, r)
                     + CountSum(fresh)
             /\ UniqueOf(cumulative_totals, r) =
                   Max(UniqueOf(historical_data.cumulative_totals, r),
                       ReportOf(r).period_unique)

\* A later cycle reports another count for a date the ledger holds and keeps.
C2_Witness ==
    /\ pc = "calculated"
    /\ \E r \in BatchNames : \E it \in Items(ReportOf(r)) :
          LET prior == Ledger(historical_data.daily_records, r)
          IN  /\ it.key \in Keys(prior)
              /\ Get(prior, it.key).count # it.value.count
              /\ it.key >= now - RetentionDays
              /\ Len(ReportOf(r).daily_breakdown) = 2

\* ---- C3 -----------------------------------------------------------------
\* C3: the computed cumulative_totals and daily_records are those every
\* other order of the reports in the batch yields, and every other order of
\* the days of one report's daily_breakdown yields the same total_clones.
C3_OrderIndependent ==
    Computed =>
      /\ \A perm \in Reorderings(clone_data) :
            LET res == CalculateCumulativeTotals(perm, historical_data, now)
            IN  /\ res.cumulative = cumulative_totals
                /\ res.daily_records = daily_records
      /\ \A i \in 1..Len(clone_data) :
            \A days \in Reorderings(clone_data[i].daily_breakdown) :
               LET other == [clone_data EXCEPT ![i].daily_breakdown = days]
                   res == CalculateCumulativeTotals(other, historical_data, now)
               IN  TotalOf(res.cumulative, clone_data[i].repo_name) =
                      TotalOf(cumulative_totals, clone_data[i].repo_name)

\* A batch of two reports, one of them with two days, on a non-empty state.
C3_Witness ==
    /\ pc = "calculated"
    /\ Len(clone_data) = 2
    /\ historical_data.cumulative_totals # {}
    /\ \E i \in 1..2 : Len(clone_data[i].daily_breakdown) = 2

\* ---- C4 -----------------------------------------------------------------
\* C4: a repository of the loaded state with no report in the batch has its
\* cumulative entry and its daily records unchanged in the computed state
\* and in the file the cycle writes.
C4_AbsentRepoKept ==
    /\ Computed =>
         /\ \A e \in historical_data.cumulative_totals :
               e.key \notin BatchNames => e \in cumulative_totals
         /\ \A e \in historical_data.daily_records :
               e.key \notin BatchNames => e \in daily_records
    /\ pc = "written" =>
         /\ \A e \in historical_data.cumulative_totals :
               e.key \notin BatchNames => e \in Persisted.cumulative_totals
         /\ \A e \in historical_data.daily_records :
               e.key \notin BatchNames => e \in Persisted.daily_records

\* A cycle has written its state while a repository of the loaded state,
\* holding a record older than the horizon, had no report.
C4_Witness ==
    /\ pc = "written"
    /\ \E r \in Keys(historical_data.cumulative_totals) \ BatchNames :
          \E d \in Keys(Ledger(historical_data.daily_records, r)) :
             d < now - RetentionDays

\* ---- C5 -----------------------------------------------------------------
\* C5: pruning leaves total_clones alone: the total of a reported repository
\* is the total the loop over its days reached before the pruning, whatever
\* the pruning removed; and a date whose entry was pruned earlier and is
\* reported again is handled as new: the loop inserts it with the reported
\* stats, prints its "Adding" line, and the total grows by its count.
C5_PruningKeepsTotals ==
    Computed =>
      \A r \in BatchNames :
         LET prior == Ledger(historical_data.daily_records, r)
             before == TotalOf(historical_data.cumulative_totals, r)
             loop == ProcessDays([records |-> prior, total_clones |-> before,
                                  added |-> {}],
                                 ReportOf(r).daily_breakdown)
             again == {it \in Items(ReportOf(r)) :
                          /\ prov.hist.pruned[<<r, it.key>>] > 0
                          /\ it.key \notin Keys(prior)}
         IN  /\ TotalOf(cumulative_totals, r) = loop.total_clones
             /\ TotalOf(cumulative_totals, r) >= before + CountSum(again)
             /\ \A it \in again :
                   /\ [key |-> it.key, value |-> it.value] \in loop.records
                   /\ [repo_name |-> r, day |-> it.key] \in printed
                   /\ prov.cum.added[<<r, it.key>>]
                         = prov.hist.added[<<r, it.key>>] + 1

\* A date pruned by an earlier cycle is reported again, while the cycle also
\* prunes.
C5_Witness ==
    /\ pc = "calculated"
    /\ \E r \in BatchNames : \E it \in Items(ReportOf(r)) :
          /\ prov.hist.pruned[<<r, it.key>>] > 0
          /\ prov.cum.pruned[<<r, it.key>>] > prov.hist.pruned[<<r, it.key>>]
          /\ TotalOf(historical_data.cumulative_totals, r) > 0

\* ---- C6 -----------------------------------------------------------------
\* Every repository of the last completed write is in totals, with a
\* total_clones not below the one that write held.
NotBelowLastWrite(totals) ==
    \A e \in LoadHistoricalData(last_written).cumulative_totals :
       /\ e.key \in Keys(totals)
       /\ Get(totals, e.key).total_clones >= e.value.total_clones

\* C6 as stated: whenever a cycle writes the file, every repository's
\* total_clones is at least what the previous completed write held, also when
\* the cycle's load of the prior state failed.
C6_NeverDecreases ==
    [][(pc = "calculated" /\ pc' = "written")
          => NotBelowLastWrite(cumulative_totals)]_vars

\* C6 amended: a cycle that loaded the prior state from the file writes, for
\* every repository, a total_clones at least that of the previous completed
\* write (repositories without a report included). A cycle whose load failed
\* starts again from zero.
C6_NeverDecreasesWhenLoaded ==
    [][(pc = "calculated" /\ pc' = "written" /\ load_ok)
          => NotBelowLastWrite(cumulative_totals)]_vars

\* A cycle that loaded a repository's positive total has written its state.
C6_Witness ==
    /\ pc = "written"
    /\ load_ok
    /\ \E e \in historical_data.cumulative_totals : e.value.total_clones > 0

\* ---- C7 -----------------------------------------------------------------
\* C7 as stated: at every moment the file is the complete state of the last
\* completed write (the prior state until the new one is complete).
C7_PriorOrNewState ==
    summary_file = last_written

\* C7 amended: the file is overwritten only once the new state is computed;
\* a crash while it is written can leave a truncated file that holds neither
\* the prior nor the new state, but such a file never parses, so the next
\* cycle loads the empty state from it; a file that parses is the complete
\* state of the last completed write.
C7_TruncatedNeverParses ==
    /\ FileParses => summary_file = last_written
    /\ summary_file # last_written =>
          /\ crashes > 0
          /\ Persisted = EmptyHistorical
    /\ pc \in {"loaded", "fetched", "csv", "calculated"} =>
          (load_ok <=> summary_file = last_written /\ summary_file.exists)

\* An interrupted write has left a truncated file over a complete earlier one.
C7_Witness ==
    /\ summary_file.exists
    /\ ~IsValidJson(summary_file.content)
    /\ last_written.exists
    /\ Len(summary_file.content) = 2

\* ---- C8 -----------------------------------------------------------------
\* C8: when the file is absent or does not parse, load_historical_data
\* returns the empty state, and the cycle goes on: the totals it computes and
\* writes are those of the batch alone.
C8_LoadFailureIsEmptyState ==
    /\ (pc \in {"loaded", "fetched", "csv", "calculated"} /\ ~FileParses) =>
          historical_data = EmptyHistorical
    /\ (Computed /\ ~load_ok) =>
          /\ Keys(cumulative_totals) = BatchNames
          /\ Keys(daily_records) = BatchNames
          /\ \A r \in BatchNames :
                /\ TotalOf(cumulative_totals, r) = CountSum(Items(ReportOf(r)))
                /\ Get(cumulative_totals, r).first_tracked = timestamp
    /\ (pc = "written" /\ ~load_ok) =>
          /\ FileParses
          /\ Persisted.cumulative_totals = cumulative_totals
          /\ Persisted.daily_records = daily_records

\* A cycle has computed its state although the file it read is truncated.
C8_Witness ==
    /\ pc = "calculated"
    /\ summary_file.exists
    /\ ~IsValidJson(summary_file.content)
    /\ cumulative_totals # {}

\* ---- C9 -----------------------------------------------------------------
\* C9: with an empty batch main writes nothing: the step after the fetch
\* leaves clone_data.csv and clones_summary.json as they are and ends the
\* cycle.
C9_EmptyBatchWritesNothing ==
    [][(pc = "fetched" /\ clone_data = <<>>)
          => (csv_file' = csv_file /\ summary_file' = summary_file
              /\ pc' = "idle")]_vars

\* The fetch has returned an empty batch.
C9_Witness ==
    /\ pc = "fetched"
    /\ clone_data = <<>>

\* ---- C10 ----------------------------------------------------------------
\* C10 as stated: in the state a cycle wrote, every repository's daily
\* records hold only dates of the last 30 days.
C10_AllLedgersInHorizon ==
    pc = "written" =>
       \A e \in Persisted.daily_records :
          \A d \in Keys(e.value) : d >= now - RetentionDays

\* C10 amended: in the state a cycle wrote, the daily records of every
\* repository that had a report in the cycle's batch hold only dates of the
\* last 30 days; a repository without a report keeps the records it had,
\* older ones included.
C10_ReportedLedgersInHorizon ==
    pc = "written" =>
       \A r \in BatchNames :
          \A d \in Keys(Ledger(Persisted.daily_records, r)) :
             d >= now - RetentionDays

\* A cycle has written its state after pruning a record of a reported
\* repository.
C10_Witness ==
    /\ pc = "written"
    /\ \E r \in BatchNames :
          \E d \in Keys(Ledger(historical_data.daily_records, r)) :
             /\ d < now - RetentionDays
             /\ d \notin Keys(Ledger(Persisted.daily_records, r))

====
